---- MODULE Spec2Model ----
(***************************************************************************)
(* Model of VtiEndpointClient (vti_endpoint_client.py): the job lease and  *)
(* heartbeat client.  One foreground caller issues the public methods; the *)
(* heartbeat threads created by StartHeartbeat run UpdateLeasedJobStatus.  *)
(* Every method is split at the points where it reads or writes state the  *)
(* other side can touch (self._job, the thread's keep_running attribute)   *)
(* and at its HTTP requests.                                               *)
(***************************************************************************)
EXTENDS Integers, Sequences, FiniteSets, TLC

VARIABLES
    job,               \* self._job
    heartbeat_thread,  \* self._heartbeat_thread: 0 is None, else an index of threads
    threads,           \* the Thread objects created so far, in creation order
    fg,                \* the foreground caller: the method it is in and its locals
    ret,               \* what the last finished foreground call returned or raised
    finalized,         \* keys of the jobs whose terminal final push the endpoint received
    requests,          \* job_queue/v1/get requests received since the last call began
    nextKey            \* the next job the queue (or the parent process) hands out

vars == <<job, heartbeat_thread, threads, fg, ret, finalized, requests,
          nextKey>>

----------------------------------------------------------------------------
(* Bounds of the model *)

MaxThreads == 1
MaxJobs == 2

\* Threads created under LifecycleSpec, which follows the caller through
\* restarts of the heartbeat
MaxRestartThreads == 2

----------------------------------------------------------------------------
(* Values *)

JOB_STATUS_DICT ==
    ("ready" :> 0) @@ ("leased" :> 1) @@ ("complete" :> 2) @@
    ("infra-err" :> 3) @@ ("expired" :> 4) @@ ("bootup-err" :> 5)

StatusNames == DOMAIN JOB_STATUS_DICT

\* A Python value of self._job: None, or a dict.  keys says which of the
\* entries are present; an absent entry holds the default written here.
NoneJob ==
    [isNone |-> TRUE, keys |-> {}, test_name |-> <<>>, status |-> 0,
     test_type |-> <<>>, infra_log_url |-> "", key |-> 0]

EmptyDict == [NoneJob EXCEPT !.isNone = FALSE]

Has(j, k) == ~j.isNone /\ k \in j.keys

\* bool(j): None and {} are falsy
Truthy(j) == ~j.isNone /\ j.keys # {}

SetStatus(j, v) == [j EXCEPT !.keys = @ \cup {"status"}, !.status = v]

SetInfraLogUrl(j, u) ==
    [j EXCEPT !.keys = @ \cup {"infra_log_url"}, !.infra_log_url = u]

\* json.dumps(self._job): the request body, of which the endpoint reads the
\* job's key and its status (None is sent as null, an absent entry is absent)
JsonDumps(j) ==
    [null |-> j.isNone, has_key |-> Has(j, "key"),
     key |-> IF Has(j, "key") THEN j.key ELSE 0,
     has_status |-> Has(j, "status"),
     status |-> IF Has(j, "status") THEN j.status ELSE 0]

NoBody == JsonDumps(NoneJob)

\* The jobs the queue hands out: test_name, status, optional test_type.
JobA == [EmptyDict EXCEPT !.keys = {"test_name", "status", "key"},
                          !.test_name = <<"v", "/", "x", "/", "y">>,
                          !.status = 1]
JobB == [EmptyDict EXCEPT !.keys = {"test_name", "status", "test_type", "key"},
                          !.test_name = <<"c">>, !.status = 0,
                          !.test_type = <<"2">>]

Jobs == {JobA, JobB}

WithKey(j, k) == [j EXCEPT !.key = k]

\* The "jobs" lists of a job_queue/v1/get response, before keys are given
JobLists == {<<>>, <<JobA>>, <<JobB, JobA>>, <<JobA, JobB>>}

KeyJobs(l, k) == [i \in DOMAIN l |-> WithKey(l[i], k + i - 1)]

\* A response to job_queue/v1/get.  conn = FALSE is a ConnectionError.
Response(conn, ok, rc, hasJobs, jobs) ==
    [conn |-> conn, ok |-> ok, return_code |-> rc, has_jobs |-> hasJobs,
     jobs |-> jobs]

NoResponse == Response(TRUE, TRUE, "absent", FALSE, <<>>)

Responses(k) ==
    {Response(FALSE, FALSE, "absent", FALSE, <<>>),
     Response(TRUE, FALSE, "absent", FALSE, <<>>),
     Response(TRUE, TRUE, "FAIL", TRUE, KeyJobs(<<JobA>>, k)),
     Response(TRUE, TRUE, "SUCCESS", FALSE, <<>>),
     Response(TRUE, TRUE, "absent", FALSE, <<>>)}
    \cup {Response(TRUE, TRUE, "SUCCESS", TRUE, KeyJobs(l, k)) : l \in JobLists}
    \cup {Response(TRUE, TRUE, "absent", TRUE, KeyJobs(<<JobB, JobA>>, k))}

Hostnames == {"", "hostA"}
LogUrls == {"gs://log"}
StopStatuses == {"complete", "infra-err", "bootup-err"}

----------------------------------------------------------------------------
(* Pure helpers *)

\* str.split("/"): the list of the segments between the separators
RECURSIVE SplitAcc(_, _, _)
SplitAcc(s, cur, acc) ==
    IF s = <<>> THEN Append(acc, cur)
    ELSE IF Head(s) = "/" THEN SplitAcc(Tail(s), <<>>, Append(acc, cur))
    ELSE SplitAcc(Tail(s), Append(cur, Head(s)), acc)

Split(s) == SplitAcc(s, <<>>, <<>>)

\* job["test_name"].split("/")[0]
Category(j) == Split(j.test_name)[1]

NoneCategory == <<"None">>

Digits == ("0" :> 0) @@ ("1" :> 1) @@ ("2" :> 2) @@ ("3" :> 3)

\* int(x) of a string: ValueError unless it is a non-empty run of digits
IsInt(s) == s # <<>> /\ \A i \in DOMAIN s : s[i] \in DOMAIN Digits

RECURSIVE IntOf(_, _)
IntOf(s, acc) ==
    IF s = <<>> THEN acc ELSE IntOf(Tail(s), 10 * acc + Digits[Head(s)])

----------------------------------------------------------------------------
(* The foreground caller and the threads *)

\* fresh records, for a StopHeartbeat call, that the call before it was the
\* acquisition of the job now held
Idle ==
    [pc |-> "idle", hostname |-> "", execute |-> FALSE, arg |-> NoneJob,
     status |-> "leased", infra_log_url |-> "", resp |-> NoResponse,
     fresh |-> FALSE]

NoRet ==
    [op |-> "none", cat |-> NoneCategory, job |-> NoneJob, bool |-> FALSE,
     int |-> 0, fault |-> "none"]

Returned(op) == [NoRet EXCEPT !.op = op]

Raised(op, e) == [NoRet EXCEPT !.op = op, !.fault = e]

\* threading.Thread(target=self.UpdateLeasedJobStatus, args=(status, interval))
NewThread(status) ==
    [pc |-> "L302", keep_running |-> "unset", status |-> status,
     payload |-> NoBody]

Init ==
    /\ job = EmptyDict
    /\ heartbeat_thread = 0
    /\ threads = <<>>
    /\ fg = Idle
    /\ ret = NoRet
    /\ finalized = {}
    /\ requests = 0
    /\ nextKey = 1

----------------------------------------------------------------------------
(* StartHeartbeat and SetJobStatusFromLeasedTo, as the methods call them *)

\* hasattr(self._heartbeat_thread, 'keep_running')
HasKeepRunning(t) == threads[t].keep_running # "unset"

\* StartHeartbeat without its test of self._heartbeat_thread
StartsThreadAlways == TRUE

\* The condition of StartHeartbeat under which it creates and starts a thread
StartsThread == heartbeat_thread = 0 \/ HasKeepRunning(heartbeat_thread)

StartHeartbeat(status) ==
    IF StartsThread
    THEN /\ threads' = Append(threads, NewThread(status))
         /\ heartbeat_thread' = Len(threads) + 1
    ELSE UNCHANGED <<threads, heartbeat_thread>>

\* self._job["status"] raises KeyError when the dict has no such entry
StatusKeyError(j) == ~j.isNone /\ ~Has(j, "status")

\* SetJobStatusFromLeasedTo without its test of the current status
SetJobStatusUnguarded(j, status) ==
    IF ~j.isNone THEN SetStatus(j, JOB_STATUS_DICT[status]) ELSE j

\* The record SetJobStatusFromLeasedTo(status) leaves in self._job
SetJobStatusFromLeasedTo(j, status) ==
    IF ~j.isNone /\ j.status = JOB_STATUS_DICT["leased"]
    THEN SetStatus(j, JOB_STATUS_DICT[status])
    ELSE j

----------------------------------------------------------------------------
(* The heartbeat thread: UpdateLeasedJobStatus(status, update_interval) *)

SetThread(t, r) == threads' = [threads EXCEPT ![t] = r]

\* if self._job is None: return
HB_CheckJob(t) ==
    /\ threads[t].pc = "L302"
    /\ SetThread(t, [threads[t] EXCEPT
                        !.pc = IF job.isNone THEN "done" ELSE "L306"])
    /\ UNCHANGED <<job, heartbeat_thread, fg, ret, finalized,
                   requests, nextKey>>

\* The record the thread's first statement leaves in self._job
HB_StatusWrite(j, status) == SetStatus(j, JOB_STATUS_DICT[status])

\* self._job["status"] = JOB_STATUS_DICT[status]; TypeError on None ends the thread
HB_SetStatus(t) ==
    /\ threads[t].pc = "L306"
    /\ IF job.isNone
       THEN /\ SetThread(t, [threads[t] EXCEPT !.pc = "dead"])
            /\ UNCHANGED job
       ELSE /\ job' = HB_StatusWrite(job, threads[t].status)
            /\ SetThread(t, [threads[t] EXCEPT !.pc = "L309"])
    /\ UNCHANGED <<heartbeat_thread, fg, ret, finalized, requests,
                   nextKey>>

\* The loop condition without its reading of the attribute
KeepRunningAlways(t) == TRUE

\* getattr(thread, 'keep_running', True)
KeepRunning(t) == threads[t].keep_running = "unset"

\* while getattr(thread, 'keep_running', True):
HB_Loop(t) ==
    /\ threads[t].pc = "L309"
    /\ SetThread(t, [threads[t] EXCEPT
                        !.pc = IF KeepRunning(t) THEN "L310" ELSE "done"])
    /\ UNCHANGED <<job, heartbeat_thread, fg, ret, finalized,
                   requests, nextKey>>

\* requests.post(url, data=json.dumps(self._job), ...): the body is built
HB_Post(t) ==
    /\ threads[t].pc = "L310"
    /\ SetThread(t, [threads[t] EXCEPT !.pc = "wait",
                                       !.payload = JsonDumps(job)])
    /\ UNCHANGED <<job, heartbeat_thread, fg, ret, finalized,
                   requests, nextKey>>

\* The request reaches the endpoint and is answered (ok or an error status,
\* which is logged) and the thread sleeps its interval (line 314), or the
\* connection fails and ConnectionError ends the thread
HB_Response(t) ==
    /\ threads[t].pc = "wait"
    /\ \E outcome \in {"ok", "error", "conn"} :
          IF outcome = "conn"
          THEN /\ SetThread(t, [threads[t] EXCEPT !.pc = "dead",
                                                  !.payload = NoBody])
          ELSE /\ SetThread(t, [threads[t] EXCEPT !.pc = "L309",
                                                  !.payload = NoBody])
    /\ UNCHANGED <<job, heartbeat_thread, fg, ret, finalized, requests,
                   nextKey>>

----------------------------------------------------------------------------
(* The foreground caller *)

Return(r) == fg' = Idle /\ ret' = r

\* The empty result (None, {})
EmptyResult(op) == [Returned(op) EXCEPT !.job = EmptyDict]

\* Bound: a call that would create a thread is made while fewer than
\* MaxThreads were created
CanStart == StartsThread => Len(threads) < MaxThreads

\* The call that has just returned was a LeaseJob(execute=True) or ExecuteJob
\* that stored the job it returned, and that job is the one held
JustAcquired ==
    /\ ret.op \in {"LeaseJob", "ExecuteJob"} /\ ret.fault = "none"
    /\ ~ret.job.isNone /\ ret.job.keys # {}
    /\ ~job.isNone /\ job.key = ret.job.key

\* The caller enters one of the public methods with its arguments
Call ==
    /\ fg.pc = "idle"
    /\ \/ /\ nextKey <= MaxJobs /\ CanStart
          /\ \E h \in Hostnames, e \in BOOLEAN :
                fg' = [Idle EXCEPT !.pc = "LeaseJob", !.hostname = h,
                                   !.execute = e]
       \/ /\ nextKey <= MaxJobs /\ CanStart
          /\ \E j \in {NoneJob} \cup {WithKey(x, nextKey) : x \in Jobs} :
                fg' = [Idle EXCEPT !.pc = "ExecuteJob", !.arg = j]
       \/ /\ CanStart
          /\ fg' = [Idle EXCEPT !.pc = "StartHeartbeat"]
       \/ \E s \in StopStatuses, u \in LogUrls :
             fg' = [Idle EXCEPT !.pc = "StopHeartbeat", !.status = s,
                                !.infra_log_url = u, !.fresh = JustAcquired]
       \/ \E s \in StatusNames :
             fg' = [Idle EXCEPT !.pc = "SetJobStatusFromLeasedTo", !.status = s]
       \/ fg' = [Idle EXCEPT !.pc = "CheckBootUpStatus"]
       \/ fg' = [Idle EXCEPT !.pc = "GetJobTestType"]
    /\ ret' = NoRet
    /\ requests' = 0
    /\ UNCHANGED <<job, heartbeat_thread, threads, finalized, nextKey>>

\* LeaseJob without its hostname check
HostnameUnchecked(h) == TRUE

\* Line 247: a non-empty string is truthy
HostnameGiven(h) == h # ""

\* LeaseJob, lines 247-252: the hostname check and the request.  A
\* ConnectionError of requests.post is not caught and leaves the method.
LeaseJob_Post ==
    /\ fg.pc = "LeaseJob"
    /\ IF ~HostnameGiven(fg.hostname)
       THEN /\ Return(EmptyResult("LeaseJob"))
            /\ UNCHANGED requests
       ELSE /\ requests' = requests + 1
            /\ \E r \in Responses(nextKey) :
                  IF r.conn
                  THEN fg' = [fg EXCEPT !.pc = "L253", !.resp = r] /\ UNCHANGED ret
                  ELSE Return(Raised("LeaseJob", "ConnectionError"))
    /\ UNCHANGED <<job, heartbeat_thread, threads, finalized, nextKey>>

\* The checks of the response without the one of return_code
HasJobsAnyReturnCode(r) == r.ok /\ r.has_jobs /\ Len(r.jobs) > 0

\* Lines 253-269: whether the response carries jobs that LeaseJob goes through
HasJobs(r) ==
    /\ r.ok
    /\ ~(r.return_code # "absent" /\ r.return_code # "SUCCESS")
    /\ r.has_jobs
    /\ Len(r.jobs) > 0

\* A loop that runs to its end and keeps the last job
LastJob(jobs) == jobs[Len(jobs)]

\* Lines 270-274: the loop returns in its first iteration
LeasedJob(jobs) == jobs[1]

\* LeaseJob without its test of execute
ExecutesAlways(execute) == TRUE

\* Line 271: whether the job becomes the held job and the heartbeat starts
Executes(execute) == execute = TRUE

\* LeaseJob, lines 253-275
LeaseJob_Response ==
    /\ fg.pc = "L253"
    /\ IF HasJobs(fg.resp)
       THEN LET j == LeasedJob(fg.resp.jobs) IN
            /\ IF Executes(fg.execute)
               THEN job' = j /\ StartHeartbeat("leased")
               ELSE UNCHANGED <<job, threads, heartbeat_thread>>
            /\ Return([Returned("LeaseJob") EXCEPT !.cat = Category(j), !.job = j])
            /\ nextKey' = nextKey + 1
       ELSE /\ Return(EmptyResult("LeaseJob"))
            /\ UNCHANGED <<job, threads, heartbeat_thread, nextKey>>
    /\ UNCHANGED <<finalized, requests>>

\* ExecuteJob(job), lines 287-293
ExecuteJob ==
    /\ fg.pc = "ExecuteJob"
    /\ IF ~fg.arg.isNone
       THEN /\ job' = fg.arg
            /\ StartHeartbeat("leased")
            /\ Return([Returned("ExecuteJob") EXCEPT !.cat = Category(fg.arg),
                                                      !.job = fg.arg])
            /\ nextKey' = nextKey + 1
       ELSE /\ Return(EmptyResult("ExecuteJob"))
            /\ UNCHANGED <<job, threads, heartbeat_thread, nextKey>>
    /\ UNCHANGED <<finalized, requests>>

\* StartHeartbeat() called by the caller itself, with its default arguments
StartHeartbeatCall ==
    /\ fg.pc = "StartHeartbeat"
    /\ StartHeartbeat(fg.status)
    /\ Return(Returned("StartHeartbeat"))
    /\ UNCHANGED <<job, finalized, requests, nextKey>>

\* StopHeartbeat, lines 341-344: AttributeError when no thread was ever created
Stop_Cancel ==
    /\ fg.pc = "StopHeartbeat"
    /\ IF heartbeat_thread = 0
       THEN /\ Return(Raised("StopHeartbeat", "AttributeError"))
            /\ UNCHANGED threads
       ELSE /\ threads' = [threads EXCEPT ![heartbeat_thread].keep_running = "False"]
            /\ IF job.isNone
               THEN Return(Returned("StopHeartbeat"))
               ELSE fg' = [fg EXCEPT !.pc = "L347"] /\ UNCHANGED ret
    /\ UNCHANGED <<job, heartbeat_thread, finalized, requests, nextKey>>

\* Line 347: self.SetJobStatusFromLeasedTo(status)
Stop_SetStatus ==
    /\ fg.pc = "L347"
    /\ IF StatusKeyError(job)
       THEN Return(Raised("StopHeartbeat", "KeyError")) /\ UNCHANGED job
       ELSE /\ job' = SetJobStatusFromLeasedTo(job, fg.status)
            /\ fg' = [fg EXCEPT !.pc = "L348"]
            /\ UNCHANGED ret
    /\ UNCHANGED <<heartbeat_thread, threads, finalized, requests,
                   nextKey>>

\* Line 348: self._job["infra_log_url"] = infra_log_url
Stop_SetLog ==
    /\ fg.pc = "L348"
    /\ job' = SetInfraLogUrl(job, fg.infra_log_url)
    /\ fg' = [fg EXCEPT !.pc = "L350"]
    /\ UNCHANGED <<heartbeat_thread, threads, ret, finalized,
                   requests, nextKey>>

Terminal == {JOB_STATUS_DICT["complete"], JOB_STATUS_DICT["infra-err"],
             JOB_STATUS_DICT["bootup-err"]}

\* The endpoint receives a final push with body b
Finalize(b) ==
    IF b.has_key /\ b.has_status /\ b.status \in Terminal
    THEN finalized \cup {b.key} ELSE finalized

\* Lines 350-353: the final push.  A ConnectionError is not caught.
Stop_Post ==
    /\ fg.pc = "L350"
    /\ \E outcome \in {"ok", "error", "conn"} :
          IF outcome = "conn"
          THEN /\ Return(Raised("StopHeartbeat", "ConnectionError"))
               /\ UNCHANGED finalized
          ELSE /\ finalized' = Finalize(JsonDumps(job))
               /\ fg' = [fg EXCEPT !.pc = "L355"]
               /\ UNCHANGED ret
    /\ UNCHANGED <<job, heartbeat_thread, threads, requests, nextKey>>

\* StopHeartbeat returning without clearing self._job
Stop_ReturnHolding ==
    /\ fg.pc = "L355"
    /\ Return(Returned("StopHeartbeat"))
    /\ UNCHANGED <<job, heartbeat_thread, threads, finalized, requests,
                   nextKey>>

\* Line 355: self._job = None
Stop_Clear ==
    /\ fg.pc = "L355"
    /\ job' = NoneJob
    /\ Return(Returned("StopHeartbeat"))
    /\ UNCHANGED <<heartbeat_thread, threads, finalized, requests,
                   nextKey>>

\* SetJobStatusFromLeasedTo(status) called by the caller itself
SetJobStatusCall ==
    /\ fg.pc = "SetJobStatusFromLeasedTo"
    /\ IF StatusKeyError(job)
       THEN Return(Raised("SetJobStatusFromLeasedTo", "KeyError")) /\ UNCHANGED job
       ELSE /\ job' = SetJobStatusFromLeasedTo(job, fg.status)
            /\ Return(Returned("SetJobStatusFromLeasedTo"))
    /\ UNCHANGED <<heartbeat_thread, threads, finalized, requests,
                   nextKey>>

\* CheckBootUpStatus without its test that a job is held
BootUpStatusOfAnyRecord(j) == j.status # JOB_STATUS_DICT["bootup-err"]

\* The value CheckBootUpStatus returns for self._job = j
BootUpStatus(j) ==
    IF Truthy(j) THEN j.status # JOB_STATUS_DICT["bootup-err"] ELSE FALSE

\* self._job["status"] on a non-empty dict without the entry
CheckKeyError(j) == Truthy(j) /\ ~Has(j, "status")

CheckBootUpStatus ==
    /\ fg.pc = "CheckBootUpStatus"
    /\ IF CheckKeyError(job)
       THEN Return(Raised("CheckBootUpStatus", "KeyError"))
       ELSE Return([Returned("CheckBootUpStatus") EXCEPT !.bool = BootUpStatus(job)])
    /\ UNCHANGED <<job, heartbeat_thread, threads, finalized,
                   requests, nextKey>>

\* The value GetJobTestType returns for self._job = j
JobTestType(j) ==
    IF Truthy(j) /\ Has(j, "test_type") /\ IsInt(j.test_type)
    THEN IntOf(j.test_type, 0)
    ELSE 0

GetJobTestType ==
    /\ fg.pc = "GetJobTestType"
    /\ Return([Returned("GetJobTestType") EXCEPT !.int = JobTestType(job)])
    /\ UNCHANGED <<job, heartbeat_thread, threads, finalized,
                   requests, nextKey>>

Next ==
    \/ Call
    \/ LeaseJob_Post
    \/ LeaseJob_Response
    \/ ExecuteJob
    \/ StartHeartbeatCall
    \/ Stop_Cancel
    \/ Stop_SetStatus
    \/ Stop_SetLog
    \/ Stop_Post
    \/ Stop_Clear
    \/ SetJobStatusCall
    \/ CheckBootUpStatus
    \/ GetJobTestType
    \/ \E t \in DOMAIN threads : HB_CheckJob(t)
    \/ \E t \in DOMAIN threads : HB_SetStatus(t)
    \/ \E t \in DOMAIN threads : HB_Loop(t)
    \/ \E t \in DOMAIN threads : HB_Post(t)
    \/ \E t \in DOMAIN threads : HB_Response(t)

Spec == Init /\ [][Next]_vars

----------------------------------------------------------------------------
(* The caller that uses only the lifecycle methods LeaseJob, ExecuteJob,     *)
(* StartHeartbeat and StopHeartbeat, followed through restarts of the        *)
(* heartbeat: up to MaxRestartThreads threads.                               *)

CanRestart == StartsThread => Len(threads) < MaxRestartThreads

LifecycleCallWhen(canStart) ==
    /\ fg.pc = "idle"
    /\ \/ /\ nextKey <= MaxJobs /\ canStart
          /\ fg' = [Idle EXCEPT !.pc = "LeaseJob", !.hostname = "hostA",
                                !.execute = TRUE]
       \/ /\ nextKey <= MaxJobs /\ canStart
          /\ \E j \in {WithKey(x, nextKey) : x \in Jobs} :
                fg' = [Idle EXCEPT !.pc = "ExecuteJob", !.arg = j]
       \/ /\ canStart
          /\ fg' = [Idle EXCEPT !.pc = "StartHeartbeat"]
       \/ fg' = [Idle EXCEPT !.pc = "StopHeartbeat", !.status = "complete",
                             !.infra_log_url = "gs://log",
                             !.fresh = JustAcquired]
    /\ ret' = NoRet
    /\ requests' = 0
    /\ UNCHANGED <<job, heartbeat_thread, threads, finalized, nextKey>>

LifecycleCall == LifecycleCallWhen(CanRestart)

LifecycleNext ==
    \/ LifecycleCall
    \/ LeaseJob_Post
    \/ LeaseJob_Response
    \/ ExecuteJob
    \/ StartHeartbeatCall
    \/ Stop_Cancel
    \/ Stop_SetStatus
    \/ Stop_SetLog
    \/ Stop_Post
    \/ Stop_Clear
    \/ \E t \in DOMAIN threads : HB_CheckJob(t)
    \/ \E t \in DOMAIN threads : HB_SetStatus(t)
    \/ \E t \in DOMAIN threads : HB_Loop(t)
    \/ \E t \in DOMAIN threads : HB_Post(t)
    \/ \E t \in DOMAIN threads : HB_Response(t)

LifecycleSpec == Init /\ [][LifecycleNext]_vars

----------------------------------------------------------------------------
(* The lifecycle caller with up to MaxThreads threads, under fair scheduling *)
(* of the threads.                                                           *)

\* One step of thread t in UpdateLeasedJobStatus
HB(t) ==
    /\ t \in DOMAIN threads
    /\ \/ HB_CheckJob(t)
       \/ HB_SetStatus(t)
       \/ HB_Loop(t)
       \/ HB_Post(t)
       \/ HB_Response(t)

FairCall == LifecycleCallWhen(CanStart)

FairNext ==
    \/ FairCall
    \/ LeaseJob_Post
    \/ LeaseJob_Response
    \/ ExecuteJob
    \/ StartHeartbeatCall
    \/ Stop_Cancel
    \/ Stop_SetStatus
    \/ Stop_SetLog
    \/ Stop_Post
    \/ Stop_Clear
    \/ \E t \in DOMAIN threads : HB_CheckJob(t)
    \/ \E t \in DOMAIN threads : HB_SetStatus(t)
    \/ \E t \in DOMAIN threads : HB_Loop(t)
    \/ \E t \in DOMAIN threads : HB_Post(t)
    \/ \E t \in DOMAIN threads : HB_Response(t)

\* A started thread is scheduled again and again, its sleep ends and each of
\* its requests is answered or fails.  The caller is free to stop calling.
FairSpec ==
    Init /\ [][FairNext]_vars /\ \A t \in 1..MaxThreads : WF_vars(HB(t))

----------------------------------------------------------------------------
(* Vocabulary of the properties *)

\* A job is held: self._job is a dict with entries
JobHeld(j) == ~j.isNone /\ j.keys # {}

\* A step of the foreground caller that leaves the method at pc
Leaves(pc) == fg.pc = pc /\ fg'.pc = "idle"

\* A step of a heartbeat thread
ThreadStep == fg' = fg /\ threads' # threads

\* The endpoint receives the tick of thread t in this step
TickReceived(t) == threads[t].pc = "wait" /\ threads'[t].pc = "L309"

\* Thread t has been started and has not left UpdateLeasedJobStatus
Alive(t) == threads[t].pc \notin {"done", "dead"}

\* The caller's step returns from a successful LeaseJob(execute=True) or
\* ExecuteJob: the job it returns is the job now held
Acquires ==
    /\ \/ Leaves("L253") /\ fg.execute
       \/ Leaves("ExecuteJob")
    /\ ret'.fault = "none" /\ JobHeld(ret'.job) /\ job' = ret'.job

\* The part of a string before its first "/" (all of it when it has none)
RECURSIVE BeforeFirstSlash(_)
BeforeFirstSlash(s) ==
    IF s = <<>> \/ Head(s) = "/" THEN <<>>
    ELSE <<Head(s)>> \o BeforeFirstSlash(Tail(s))

----------------------------------------------------------------------------
(* Properties *)

\* C1: once the endpoint has received StopHeartbeat's final push with a
\* terminal status for a job, it receives no heartbeat tick for that job
\* carrying status leased (1).
C1_NoLeasedTickAfterFinal ==
    [][\A t \in DOMAIN threads :
          TickReceived(t) =>
             ~(/\ threads[t].payload.has_key
               /\ threads[t].payload.key \in finalized
               /\ threads[t].payload.has_status
               /\ threads[t].payload.status = JOB_STATUS_DICT["leased"])]_vars

\* C2: SetJobStatusFromLeasedTo(s) sets the held job's status to s when a job
\* is held and its status is leased (1), and changes nothing otherwise: not
\* for any other current status, and not when no job is held.
C2_GuardedTransition ==
    [][Leaves("SetJobStatusFromLeasedTo") =>
          /\ IF JobHeld(job) /\ Has(job, "status")
                /\ job.status = JOB_STATUS_DICT["leased"]
             THEN job' = [job EXCEPT !.status = JOB_STATUS_DICT[fg.status]]
             ELSE job' = job
          /\ UNCHANGED <<heartbeat_thread, threads>>]_vars

\* A held job whose status a guarded transition took from leased to expired
C2_Witness ==
    /\ ret.op = "SetJobStatusFromLeasedTo" /\ ret.fault = "none"
    /\ JobHeld(job) /\ job.status = JOB_STATUS_DICT["expired"]

\* C3: a terminal status of the held job (complete, infra-err, bootup-err)
\* never goes back to leased while that job is still held.
C3_TerminalStaysTerminal ==
    [][(/\ JobHeld(job) /\ Has(job, "status") /\ job.status \in Terminal
        /\ JobHeld(job') /\ job'.key = job.key)
       => job'.status # JOB_STATUS_DICT["leased"]]_vars

\* C4: no step of the heartbeat thread writes the held job record.
C4_HeartbeatReadOnly == [][ThreadStep => job' = job]_vars

C7_ReleasedUntilNextLease ==
    /\ []((ret.op = "StopHeartbeat" /\ ret.fault = "none") => job.isNone)
    /\ [][/\ (job.isNone /\ Leaves("CheckBootUpStatus"))
             => ret' = [NoRet EXCEPT !.op = "CheckBootUpStatus", !.bool = FALSE]
          /\ (job.isNone /\ Leaves("GetJobTestType"))
             => ret' = [NoRet EXCEPT !.op = "GetJobTestType", !.int = 0]
          /\ (job.isNone /\ ~job'.isNone)
             => /\ fg.pc \in {"L253", "ExecuteJob"}
                /\ ret'.fault = "none" /\ ret'.job = job']_vars

\* After StopHeartbeat's final push and release no job is held, and
\* GetJobTestType returned 0
C7_Witness ==
    /\ ret.op = "GetJobTestType" /\ ret.int = 0
    /\ job.isNone /\ heartbeat_thread # 0
    /\ finalized # {}

\* C8: CheckBootUpStatus returns True when a job is held and its status is not
\* bootup-err (5), False when the held job's status is bootup-err, and False
\* when no job is held (initially, and after the release), however far the
\* heartbeat thread has got; it modifies nothing.
C8_CheckBootUpStatus ==
    [][Leaves("CheckBootUpStatus") =>
          /\ (JobHeld(job) /\ Has(job, "status")) =>
                ret' = [NoRet EXCEPT
                          !.op = "CheckBootUpStatus",
                          !.bool = (job.status # JOB_STATUS_DICT["bootup-err"])]
          /\ (job = EmptyDict \/ job = NoneJob) =>
                ret' = [NoRet EXCEPT !.op = "CheckBootUpStatus", !.bool = FALSE]
          /\ UNCHANGED <<job, heartbeat_thread, threads, finalized>>]_vars

\* CheckBootUpStatus returned False for a held job whose status is bootup-err
C8_Witness ==
    /\ ret.op = "CheckBootUpStatus" /\ ret.fault = "none" /\ ~ret.bool
    /\ JobHeld(job) /\ job.status = JOB_STATUS_DICT["bootup-err"]
    /\ \E t \in DOMAIN threads : threads[t].pc = "L309"

C10_LeaseJobNeverRaises == ret.op = "LeaseJob" => ret.fault = "none"

\* C11: in every reachable state at most one heartbeat thread of the client
\* is alive (started, and not yet out of its loop), also when a job is
\* acquired again after StopHeartbeat while the earlier thread still sleeps.
C11_OneAliveThread ==
    Cardinality({t \in DOMAIN threads : Alive(t)}) <= 1

\* C12: every successful LeaseJob(execute=True) or ExecuteJob leaves a live
\* heartbeat thread for the job it made the client hold: self._heartbeat_thread
\* is a thread that is still in UpdateLeasedJobStatus and has not been told to
\* stop, whatever happened before the acquisition.
C12_AcquiredJobHasHeartbeat ==
    [][Acquires =>
          /\ heartbeat_thread' # 0
          /\ Alive(heartbeat_thread)'
          /\ ~HasKeepRunning(heartbeat_thread)']_vars

\* C13: when StopHeartbeat(finalStatus) is the first call after a successful
\* LeaseJob(execute=True) or ExecuteJob, the body of its final push carries
\* finalStatus, however the steps of the new heartbeat thread fall and
\* whatever status the acquired job came with.
C13_FinalPushCarriesFinalStatus ==
    [][(fg.pc = "L350" /\ fg.fresh /\ fg'.pc = "L355")
       => /\ JsonDumps(job).has_status
          /\ JsonDumps(job).status = JOB_STATUS_DICT[fg.status]]_vars

\* C14: a heartbeat thread whose cancellation flag StopHeartbeat has set
\* leaves UpdateLeasedJobStatus eventually; when it tests the flag at the top
\* of its loop it exits and does not build another request, so that after the
\* flag is set it sends at most the request it was already about to send; and
\* once it has left it does nothing more.
C14_CancellationLiveAndBounded ==
    /\ \A t \in 1..MaxThreads :
          (t \in DOMAIN threads /\ HasKeepRunning(t))
             ~> (t \in DOMAIN threads /\ ~Alive(t))
    /\ [][\A t \in DOMAIN threads :
            /\ (HasKeepRunning(t) /\ threads[t].pc = "L309")
                  => threads'[t].pc \in {"L309", "done"}
            /\ ~Alive(t) => /\ threads'[t].pc = threads[t].pc
                            /\ threads'[t].payload = threads[t].payload]_vars

\* StopHeartbeat set the flag of a thread, made its final push and returned,
\* and the thread has left its loop
C14_Witness ==
    /\ ret.op = "StopHeartbeat" /\ ret.fault = "none" /\ finalized # {}
    /\ \E t \in DOMAIN threads :
          threads[t].keep_running = "False" /\ threads[t].pc = "done"

\* C15: a heartbeat request that fails, by an error status or by a failure
\* of the connection, does not end the heartbeat thread: the thread goes on
\* to the next test of its loop, and it leaves the loop only when its
\* cancellation flag has been set.
C15_FailedTickNotFatal ==
    [][\A t \in DOMAIN threads :
          /\ threads[t].pc = "wait" => threads'[t].pc \in {"wait", "L309"}
          /\ (threads[t].pc \in {"L309", "L310", "wait"} /\ ~Alive(t)')
                => HasKeepRunning(t)]_vars

\* C16: once StopHeartbeat has reached its final push it goes on to clear the
\* held job and returns normally, whether the push succeeds, is answered
\* with an error status or fails to connect.
C16_StopCompletesRelease ==
    [][/\ (fg.pc = "L350" /\ fg' # fg) => (fg'.pc = "L355" /\ ret' = ret)
       /\ (fg.pc = "L355" /\ fg' # fg)
             => (ret' = Returned("StopHeartbeat") /\ job'.isNone)]_vars

\* C17: while no job is held because StopHeartbeat has cleared it, no
\* heartbeat thread sends a request to the endpoint and no request of a
\* heartbeat thread is received by it.
C17_NoPushAfterRelease ==
    [][job.isNone =>
          \A t \in DOMAIN threads :
             /\ ~(threads[t].pc = "L310" /\ threads'[t].pc = "wait")
             /\ ~TickReceived(t)]_vars

\* C18: StopHeartbeat called while no job is held returns normally at once,
\* without a push and with no job held afterwards, also on a client that
\* has never acquired a job.
C18_StopWithoutJobIsNoOp ==
    [][(fg.pc = "StopHeartbeat" /\ ~JobHeld(job) /\ fg' # fg)
       => /\ fg'.pc = "idle"
          /\ ret' = Returned("StopHeartbeat")
          /\ job' = job /\ finalized' = finalized]_vars

C20_OneUncancelledThread ==
    /\ [](/\ Cardinality({t \in DOMAIN threads : ~HasKeepRunning(t)}) <= 1
          /\ \A t \in DOMAIN threads :
                ~HasKeepRunning(t) => heartbeat_thread = t)
    /\ [][/\ threads' # threads /\ Len(threads') > Len(threads)
             => \A t \in DOMAIN threads : HasKeepRunning(t)
          /\ (/\ Acquires
              /\ heartbeat_thread # 0
              /\ ~HasKeepRunning(heartbeat_thread))
             => UNCHANGED <<threads, heartbeat_thread>>]_vars

\* A second thread was created by an acquisition after the first thread had
\* been cancelled, and the second thread has no flag set
C20_Witness ==
    /\ Len(threads) = 2 /\ heartbeat_thread = 2
    /\ HasKeepRunning(1) /\ ~HasKeepRunning(2)
    /\ ret.op \in {"LeaseJob", "ExecuteJob"} /\ ret.fault = "none"
    /\ JobHeld(job) /\ job.key = ret.job.key

====
